---- MODULE Spec2Model ----
(***************************************************************************)
(* The storage layer of the trading backend: the store selector that runs  *)
(* when database.py is imported, the in-memory MockDB / MockCollection /   *)
(* MockCursor, the pymongo database the selector may bind instead, and the *)
(* helpers create_document and get_documents with the /test route.         *)
(*                                                                         *)
(* Python values are encoded as integers: None is -1, user ids, symbols    *)
(* and caller-chosen identifiers are small positive numbers, datetimes are *)
(* readings of the clock `now`, and uuid4 / ObjectId tokens are numbers    *)
(* from UuidBase upwards.  A document is a function from field names to    *)
(* encoded values.  Environment strings stay strings; an unset variable    *)
(* (os.getenv giving None) is the string Unset.                            *)
(***************************************************************************)
EXTENDS Integers, Sequences, FiniteSets, TLC

VARIABLES
  environ,            \* os.environ: USE_MOCK_DB, DATABASE_URL, DATABASE_NAME
  MongoClient,        \* "MongoClient" when pymongo imported, "None" otherwise
  USE_MOCK_DB,        \* database.py module globals
  database_url,
  database_name,
  _client,
  mongodb_available,
  db,                 \* "None", "MockDB" or "Database" (pymongo)
  startup,            \* "pending" before the selector ran, then the branch it took
  _collections,       \* MockDB._collections: insertion-ordered <<[name, coll]>>
  _docs,              \* heap of MockCollection objects: _docs[o] is o._docs
  remote,             \* contents of the MongoDB server: name -> documents
  now,                \* readings of datetime.now taken so far
  uuids,              \* uuid4 / ObjectId tokens handed out so far
  ret,                \* what the last handler that ran returned
  history,            \* the create_document calls that returned, in order
  accessed,           \* names passed to db[...] of the MockDB so far
  pc,                 \* per request thread: position in its handler
  frame               \* per request thread: the handler's locals

vars == <<environ, MongoClient, USE_MOCK_DB, database_url, database_name, _client,
          mongodb_available, db, startup, _collections, _docs, remote, now, uuids,
          ret, history, accessed, pc, frame>>

config == <<environ, MongoClient, USE_MOCK_DB, database_url, database_name>>
binding == <<_client, mongodb_available, db, startup>>
threads == <<pc, frame>>

(* ------------------------------ bounds ------------------------------ *)
\* create_document calls in one run
MaxDocs == 2
\* largest limit passed to get_documents
MaxLimit == 2
\* handlers each request thread runs
MaxCalls == 2

(* ------------------------- encoded constants ------------------------ *)
None == -1
UuidBase == 100
Unset == "<unset>"
EmptyDoc == [k \in {} |-> None]

Min(a, b) == IF a < b THEN a ELSE b
Max(a, b) == IF a > b THEN a ELSE b

(* ------------------------------ inputs ------------------------------ *)
Names == {"watchlistitem", "order"}

\* Payloads handed to create_document: watchlist items of two users, an Order
\* dump of a limit order (created_at None), a plain mapping that brings its own
\* _id and has no user_id.
Payloads ==
  { ("user_id" :> 1),
    ("user_id" :> 2),
    ("user_id" :> 1) @@ ("created_at" :> None),
    ("_id" :> 7) }

\* Filters handed to get_documents; EmptyDoc stands for both None and {}.
Filters ==
  { EmptyDoc,
    ("user_id" :> 1),
    ("user_id" :> None) }

Limits == {None} \cup (0..MaxLimit)

EnvUseMock == {Unset, "true", "TRUE"}
EnvUrl == {Unset, "", "not a uri", "mongodb://unreachable:27017", "mongodb://localhost:27017"}
EnvName == {Unset, "trading", "bad name"}

(* ----------------------- environment and pymongo -------------------- *)
\* os.getenv(key, default)
getenv(key, default) == IF environ[key] = Unset THEN default ELSE environ[key]

\* str.lower on the strings of EnvUseMock
lower(s) == IF s = "TRUE" THEN "true" ELSE s

\* truth value of an Optional[str]
Truthy(s) == s # Unset /\ s # ""

\* MongoClient(url) parses the URI eagerly and connects lazily: a malformed URI
\* raises, an unreachable host does not.
ClientRaises(url) == url = "not a uri"

\* _client[name] validates the database name.
DatabaseRaises(name) == name = "bad name"

\* Whether the server behind the bound Database answers.
Reachable == database_url = "mongodb://localhost:27017"

(* ------------------------------ MockDB ------------------------------ *)
\* name in self._collections
Contains(colls, name) == \E i \in DOMAIN colls : colls[i].name = name

\* self._collections[name]
Lookup(colls, name) == colls[CHOOSE i \in DOMAIN colls : colls[i].name = name].coll

\* self._collections[name] = o   (a dict keeps a key's first position)
SetItem(colls, name, o) ==
  IF Contains(colls, name)
    THEN [i \in DOMAIN colls |->
            IF colls[i].name = name THEN [name |-> name, coll |-> o] ELSE colls[i]]
    ELSE Append(colls, [name |-> name, coll |-> o])

\* __getitem__ that hands out a new MockCollection without keeping it
getitem_not_kept(colls, heap, name) ==
  IF Contains(colls, name)
    THEN [colls |-> colls, heap |-> heap, coll |-> Lookup(colls, name)]
    ELSE [colls |-> colls, heap |-> Append(heap, <<>>), coll |-> Len(heap) + 1]

\* MockDB.__getitem__ run without interruption: the dict, the heap and the
\* MockCollection returned.
getitem(colls, heap, name) ==
  IF Contains(colls, name)
    THEN [colls |-> colls, heap |-> heap, coll |-> Lookup(colls, name)]
    ELSE [colls |-> SetItem(colls, name, Len(heap) + 1),
          heap  |-> Append(heap, <<>>),
          coll  |-> Len(heap) + 1]

\* MockDB.list_collection_names
list_collection_names(colls) == [i \in DOMAIN colls |-> colls[i].name]

\* insert_one that puts the document at the front of the list
insert_one_front(docs, doc, token) ==
  LET d == IF "_id" \in DOMAIN doc THEN doc ELSE ("_id" :> token) @@ doc
  IN  [docs |-> <<d>> \o docs, inserted_id |-> d["_id"]]

\* MockCollection.insert_one on the list docs; token is what uuid4 would give.
insert_one(docs, doc, token) ==
  LET d == IF "_id" \in DOMAIN doc THEN doc ELSE ("_id" :> token) @@ doc
  IN  [docs |-> Append(docs, d), inserted_id |-> d["_id"]]

\* dict.get(k)
get(d, k) == IF k \in DOMAIN d THEN d[k] ELSE None

\* match written with d[k] guarded by k in d: an absent field never matches
match_present_only(d, filter_dict) ==
  \A k \in DOMAIN filter_dict : k \in DOMAIN d /\ d[k] = filter_dict[k]

\* the closure match of MockCollection.find
match(d, filter_dict) == \A k \in DOMAIN filter_dict : ~(get(d, k) # filter_dict[k])

\* MockCollection.find: the list handed to MockCursor
find(docs, filter_dict) == SelectSeq(docs, LAMBDA d : match(d, filter_dict))

\* MockCursor.limit: self._docs[:n]
limit(docs, n) ==
  IF n >= 0 THEN SubSeq(docs, 1, Min(n, Len(docs)))
            ELSE SubSeq(docs, 1, Max(Len(docs) + n, 0))

\* truth value of the limit argument of get_documents
LimitGiven(n) == n # None /\ n # 0

\* stamping with setdefault: a created_at or updated_at of the payload is kept
stamp_setdefault(data, t) == data @@ ("created_at" :> t) @@ ("updated_at" :> t)

\* create_document, lines 108-115: the dict that is inserted
stamp(data, t) == ("created_at" :> t) @@ ("updated_at" :> t) @@ data

\* get_documents on the MockCollection with the list docs
get_documents(docs, filter_dict, n) ==
  LET cursor == find(docs, filter_dict)
  IN  IF LimitGiven(n) THEN limit(cursor, n) ELSE cursor

(* ------------------------------ state ------------------------------- *)
NoRet == [op |-> "none", name |-> "", filter |-> EmptyDoc, limit |-> None,
          docs |-> <<>>, id |-> None, names |-> <<>>, raised |-> FALSE]

Threads == {1, 2}
NoFrame == [op |-> "none", name |-> "", data |-> EmptyDoc, doc |-> EmptyDoc, at |-> 0,
            coll |-> 0, mustSee |-> {}, docs |-> <<>>, calls |-> 0]

\* The state once lines 1-87 of database.py have run: the environment is read,
\* the selector has not run yet.
Init ==
  /\ environ \in [USE_MOCK_DB : EnvUseMock, DATABASE_URL : EnvUrl, DATABASE_NAME : EnvName]
  /\ MongoClient \in {"None", "MongoClient"}
  /\ USE_MOCK_DB = (lower(getenv("USE_MOCK_DB", "false")) = "true")
  /\ database_url = environ.DATABASE_URL
  /\ database_name = environ.DATABASE_NAME
  /\ _client = "None"
  /\ mongodb_available = FALSE
  /\ db = "None"
  /\ startup = "pending"
  /\ _collections = <<>>
  /\ _docs = <<>>
  /\ remote = [n \in Names |-> <<>>]
  /\ now = 0
  /\ uuids = 0
  /\ ret = NoRet
  /\ history = <<>>
  /\ accessed = {}
  /\ pc = [t \in Threads |-> "idle"]
  /\ frame = [t \in Threads |-> NoFrame]

(* -------------------------- store selector -------------------------- *)
\* line 89 with the test of USE_MOCK_DB left out
UseExternal_flag_ignored ==
  MongoClient # "None" /\ Truthy(database_url) /\ Truthy(database_name)

\* line 89: if not USE_MOCK_DB and MongoClient and database_url and database_name
UseExternal ==
  ~USE_MOCK_DB /\ MongoClient # "None" /\ Truthy(database_url) /\ Truthy(database_name)

\* database.py lines 89-101
Startup ==
  /\ startup = "pending"
  /\ IF UseExternal
       THEN IF ClientRaises(database_url)
              THEN /\ _client' = _client
                   /\ db' = "MockDB"
                   /\ mongodb_available' = FALSE
                   /\ startup' = "raised"
              ELSE IF DatabaseRaises(database_name)
                     THEN /\ _client' = "MongoClient"
                          /\ db' = "MockDB"
                          /\ mongodb_available' = FALSE
                          /\ startup' = "raised"
                     ELSE /\ _client' = "MongoClient"
                          /\ db' = "Database"
                          /\ mongodb_available' = TRUE
                          /\ startup' = "constructed"
       ELSE /\ _client' = _client
            /\ db' = "MockDB"
            /\ mongodb_available' = FALSE
            /\ startup' = "skipped"
  /\ UNCHANGED <<config, _collections, _docs, remote, now, uuids, ret, history,
                 accessed, threads>>

(* ------------------------- handlers, whole -------------------------- *)
\* pymongo's insert_one: the server assigns an ObjectId when the document has no
\* _id and refuses an _id the collection already holds.
DuplicateKey(docs, doc) ==
  "_id" \in DOMAIN doc /\ \E i \in DOMAIN docs : docs[i]["_id"] = doc["_id"]

\* line 117 on the MockDB: db[collection_name].insert_one(data_dict)
InsertMock(collection_name, data, data_dict) ==
  /\ db = "MockDB"
  /\ LET g == getitem(_collections, _docs, collection_name)
         r == insert_one(g.heap[g.coll], data_dict, UuidBase + uuids)
     IN  /\ _collections' = g.colls
         /\ _docs' = [g.heap EXCEPT ![g.coll] = r.docs]
         /\ uuids' = IF "_id" \in DOMAIN data_dict THEN uuids ELSE uuids + 1
         /\ ret' = [NoRet EXCEPT !.op = "create", !.name = collection_name,
                                 !.id = r.inserted_id]
         /\ history' = Append(history, [name |-> collection_name, data |-> data,
                                        at |-> now', id |-> r.inserted_id])
         /\ accessed' = accessed \cup {collection_name}
  /\ UNCHANGED <<binding, remote>>

\* line 117 on the pymongo database, the server answering
InsertDatabase(collection_name, data_dict) ==
  /\ db = "Database"
  /\ Reachable
  /\ ~DuplicateKey(remote[collection_name], data_dict)
  /\ LET r == insert_one(remote[collection_name], data_dict, UuidBase + uuids)
     IN  /\ remote' = [remote EXCEPT ![collection_name] = r.docs]
         /\ uuids' = IF "_id" \in DOMAIN data_dict THEN uuids ELSE uuids + 1
         /\ ret' = [NoRet EXCEPT !.op = "create", !.name = collection_name,
                                 !.id = r.inserted_id]
  /\ UNCHANGED <<binding, _collections, _docs, history, accessed>>

\* a failed insert answered by switching the process to the in-memory store
InsertRaises_fallback(collection_name) ==
  /\ db = "Database"
  /\ db' = "MockDB"
  /\ mongodb_available' = FALSE
  /\ ret' = [NoRet EXCEPT !.op = "create", !.name = collection_name, !.raised = TRUE]
  /\ UNCHANGED <<_client, startup, _collections, _docs, remote, uuids, history, accessed>>

\* line 117 on the pymongo database, the call raising (server unreachable,
\* network error, duplicate key): nothing catches it, it leaves create_document
InsertRaises(collection_name) ==
  /\ db = "Database"
  /\ ret' = [NoRet EXCEPT !.op = "create", !.name = collection_name, !.raised = TRUE]
  /\ UNCHANGED <<binding, _collections, _docs, remote, uuids, history, accessed>>

\* create_document(collection_name, data), one call from entry to return
CreateDocument(collection_name, data) ==
  /\ startup # "pending"
  /\ now < MaxDocs
  /\ now' = now + 1
  /\ LET data_dict == stamp(data, now')
     IN  \/ InsertMock(collection_name, data, data_dict)
         \/ InsertDatabase(collection_name, data_dict)
         \/ InsertRaises(collection_name)
  /\ UNCHANGED <<config, threads>>

\* get_documents(collection_name, filter_dict, limit), one call from entry to return
GetDocuments(collection_name, filter_dict, n) ==
  /\ startup # "pending"
  /\ \/ /\ db = "MockDB"
        /\ LET g == getitem(_collections, _docs, collection_name)
           IN  /\ _collections' = g.colls
               /\ _docs' = g.heap
               /\ ret' = [NoRet EXCEPT !.op = "get", !.name = collection_name,
                                       !.filter = filter_dict, !.limit = n,
                                       !.docs = get_documents(g.heap[g.coll], filter_dict, n)]
               /\ accessed' = accessed \cup {collection_name}
     \/ /\ db = "Database"
        /\ Reachable
        /\ ret' = [NoRet EXCEPT !.op = "get", !.name = collection_name,
                                !.filter = filter_dict, !.limit = n,
                                !.docs = get_documents(remote[collection_name], filter_dict, n)]
        /\ UNCHANGED <<_collections, _docs, accessed>>
     \/ /\ db = "Database"
        /\ ret' = [NoRet EXCEPT !.op = "get", !.name = collection_name,
                                !.filter = filter_dict, !.limit = n, !.raised = TRUE]
        /\ UNCHANGED <<_collections, _docs, accessed>>
  /\ UNCHANGED <<config, binding, remote, now, uuids, history, threads>>

\* main.py test_database: db.list_collection_names() behind a try/except
TestDatabase ==
  /\ startup # "pending"
  /\ \/ /\ db = "MockDB"
        /\ ret' = [NoRet EXCEPT !.op = "list",
                                !.names = list_collection_names(_collections)]
     \/ /\ db = "Database"
        /\ Reachable
        /\ ret' = [NoRet EXCEPT !.op = "list",
                     !.names = SelectSeq(<<"watchlistitem", "order">>,
                                         LAMBDA c : remote[c] # <<>>)]
     \/ /\ db = "Database"
        /\ ret' = [NoRet EXCEPT !.op = "list", !.raised = TRUE]
  /\ UNCHANGED <<config, binding, _collections, _docs, remote, now, uuids, history,
                 accessed, threads>>

(* --------------------------- main.py routes ------------------------- *)
UserIds == {1, 2}

\* WatchlistItem.model_dump() / Order.model_dump(), reduced to the fields the
\* storage layer reads or writes
WatchlistItem(user_id) == ("user_id" :> user_id)
Order(user_id, created_at) == ("user_id" :> user_id) @@ ("created_at" :> created_at)

\* POST /api/watchlist
add_watchlist(user_id) == CreateDocument("watchlistitem", WatchlistItem(user_id))

\* GET /api/watchlist
get_watchlist(user_id) == GetDocuments("watchlistitem", ("user_id" :> user_id), None)

\* POST /api/orders: a market order gets created_at from the clock before it is
\* stored, a limit order keeps created_at None
place_order(user_id, market) ==
  CreateDocument("order", Order(user_id, IF market THEN now ELSE None))

\* GET /api/orders
list_orders(user_id) == GetDocuments("order", ("user_id" :> user_id), None)

\* The process: the selector, then the routes in any order.
Next ==
  \/ Startup
  \/ \E u \in UserIds : add_watchlist(u)
  \/ \E u \in UserIds : get_watchlist(u)
  \/ \E u \in {1}, market \in BOOLEAN : place_order(u, market)
  \/ \E u \in {1} : list_orders(u)
  \/ TestDatabase

Spec == Init /\ [][Next]_vars

\* The storage layer alone, on the in-memory store, with any caller: mock mode
\* forced although a usable connection string and database name are supplied.
InitStore ==
  /\ Init
  /\ environ = [USE_MOCK_DB |-> "true", DATABASE_URL |-> "mongodb://localhost:27017",
                DATABASE_NAME |-> "trading"]
  /\ MongoClient = "MongoClient"

NextStore ==
  \/ Startup
  \/ \E c \in Names, data \in Payloads : CreateDocument(c, data)
  \/ \E c \in Names, f \in Filters, n \in Limits : GetDocuments(c, f, n)
  \/ TestDatabase

SpecStore == InitStore /\ [][NextStore]_vars

(* ------------------- handlers, one thread step at a time ------------ *)
\* The routes are plain def handlers, which the server runs on worker threads;
\* a thread can be pre-empted between any two accesses to shared objects.  A
\* step below is one access to the MockDB dict or to a MockCollection list,
\* together with the thread-local work around it.

\* create_document entered; lines 108-115 build the private data_dict
CallCreate(t, collection_name, data) ==
  /\ startup # "pending" /\ db = "MockDB"
  /\ pc[t] = "idle"
  /\ frame[t].calls < MaxCalls
  /\ now < MaxDocs
  /\ now' = now + 1
  /\ frame' = [frame EXCEPT ![t] = [NoFrame EXCEPT !.op = "create", !.name = collection_name,
                                      !.data = data, !.doc = stamp(data, now'), !.at = now',
                                      !.calls = frame[t].calls + 1]]
  /\ pc' = [pc EXCEPT ![t] = "getitem_check"]
  /\ UNCHANGED <<config, binding, _collections, _docs, remote, uuids, ret, history, accessed>>

\* get_documents entered; mustSee notes the inserts into the collection that had
\* returned by then
CallGet(t, collection_name) ==
  /\ startup # "pending" /\ db = "MockDB"
  /\ pc[t] = "idle"
  /\ frame[t].calls < MaxCalls
  /\ frame' = [frame EXCEPT ![t] = [NoFrame EXCEPT !.op = "get", !.name = collection_name,
                  !.mustSee = {history[i].id : i \in {j \in DOMAIN history :
                                                        history[j].name = collection_name}},
                  !.calls = frame[t].calls + 1]]
  /\ pc' = [pc EXCEPT ![t] = "getitem_check"]
  /\ UNCHANGED <<config, binding, _collections, _docs, remote, now, uuids, ret, history,
                 accessed>>

\* MockDB.__getitem__, line 66: if name not in self._collections
GetitemCheck(t) ==
  /\ pc[t] = "getitem_check"
  /\ pc' = [pc EXCEPT ![t] = IF Contains(_collections, frame[t].name)
                               THEN "getitem_return" ELSE "getitem_store"]
  /\ accessed' = accessed \cup {frame[t].name}
  /\ UNCHANGED <<config, binding, _collections, _docs, remote, now, uuids, ret, history, frame>>

\* line 67: self._collections[name] = MockCollection()
GetitemStore(t) ==
  /\ pc[t] = "getitem_store"
  /\ _docs' = Append(_docs, <<>>)
  /\ _collections' = SetItem(_collections, frame[t].name, Len(_docs) + 1)
  /\ pc' = [pc EXCEPT ![t] = "getitem_return"]
  /\ UNCHANGED <<config, binding, remote, now, uuids, ret, history, accessed, frame>>

\* line 68: return self._collections[name]
GetitemReturn(t) ==
  /\ pc[t] = "getitem_return"
  /\ frame' = [frame EXCEPT ![t].coll = Lookup(_collections, frame[t].name)]
  /\ pc' = [pc EXCEPT ![t] = IF frame[t].op = "create" THEN "insert_one" ELSE "find"]
  /\ UNCHANGED <<config, binding, _collections, _docs, remote, now, uuids, ret, history,
                 accessed>>

\* MockCollection.insert_one, lines 32-35, and the return of create_document
InsertOne(t) ==
  /\ pc[t] = "insert_one"
  /\ LET r == insert_one(_docs[frame[t].coll], frame[t].doc, UuidBase + uuids)
     IN  /\ _docs' = [_docs EXCEPT ![frame[t].coll] = r.docs]
         /\ uuids' = IF "_id" \in DOMAIN frame[t].doc THEN uuids ELSE uuids + 1
         /\ history' = Append(history, [name |-> frame[t].name, data |-> frame[t].data,
                                        at |-> frame[t].at, id |-> r.inserted_id])
  /\ pc' = [pc EXCEPT ![t] = "idle"]
  /\ frame' = [frame EXCEPT ![t] = [NoFrame EXCEPT !.op = "create", !.calls = frame[t].calls]]
  /\ UNCHANGED <<config, binding, _collections, remote, now, ret, accessed>>

\* MockCollection.find and list(cursor), lines 123-126: the list comprehension
\* ends on the list as it is when the iterator runs off its end
Find(t) ==
  /\ pc[t] = "find"
  /\ frame' = [frame EXCEPT ![t].docs = get_documents(_docs[frame[t].coll], EmptyDoc, None)]
  /\ pc' = [pc EXCEPT ![t] = "idle"]
  /\ UNCHANGED <<config, binding, _collections, _docs, remote, now, uuids, ret, history,
                 accessed>>

NextConc ==
  \/ Startup
  \/ \E t \in Threads, c \in Names, data \in {WatchlistItem(1), ("_id" :> 7)} :
        CallCreate(t, c, data)
  \/ \E t \in Threads, c \in Names : CallGet(t, c)
  \/ \E t \in Threads : GetitemCheck(t)
  \/ \E t \in Threads : GetitemStore(t)
  \/ \E t \in Threads : GetitemReturn(t)
  \/ \E t \in Threads : InsertOne(t)
  \/ \E t \in Threads : Find(t)

SpecConc == InitStore /\ [][NextConc]_vars

(* ---------------------------- properties ---------------------------- *)
\* the documents the MockDB holds under a name
Stored(c) == IF Contains(_collections, c) THEN _docs[Lookup(_collections, c)] ELSE <<>>

\* the create_document calls on a name that returned, in order
InsertedInto(c) == SelectSeq(history, LAMBDA e : e.name = c)

Stamps == {"_id", "created_at", "updated_at"}

IsPrefix(a, b) == Len(a) <= Len(b) /\ \A i \in DOMAIN a : a[i] = b[i]

\* C1: on the in-memory store, under any interleaving of request threads, a
\* get_documents that has returned holds every document whose create_document
\* on that collection had returned before the query started, and every document
\* it holds carries _id, created_at and updated_at.
C1_CompletedInsertsVisible ==
  \A t \in Threads :
    (db = "MockDB" /\ pc[t] = "idle" /\ frame[t].op = "get") =>
      /\ \A i \in DOMAIN frame[t].docs : Stamps \subseteq DOMAIN frame[t].docs[i]
      /\ frame[t].mustSee \subseteq {frame[t].docs[i]["_id"] : i \in DOMAIN frame[t].docs}

\* C2: on the in-memory store, get_documents(C) with no filter and no limit
\* returns one document per create_document on C that returned and none of
\* another collection, in the order of the calls, each with the payload's fields
\* plus _id, created_at and updated_at.
C2_QueryReturnsInsertedInOrder ==
  (db = "MockDB" /\ ret.op = "get" /\ ret.filter = EmptyDoc /\ ret.limit = None) =>
    LET h == InsertedInto(ret.name)
    IN  /\ Len(ret.docs) = Len(h)
        /\ \A i \in DOMAIN ret.docs :
             /\ DOMAIN ret.docs[i] = DOMAIN h[i].data \cup Stamps
             /\ \A k \in DOMAIN h[i].data \ {"created_at", "updated_at"} :
                  ret.docs[i][k] = h[i].data[k]
             /\ ret.docs[i]["_id"] = h[i].id
             /\ ret.docs[i]["created_at"] = h[i].at
             /\ ret.docs[i]["updated_at"] = h[i].at

\* C2 witness: an unfiltered query returned two documents of different payloads,
\* the one inserted first in front
C2_Witness ==
  /\ db = "MockDB" /\ ret.op = "get" /\ ret.filter = EmptyDoc /\ ret.limit = None
  /\ Len(ret.docs) = 2
  /\ "user_id" \in DOMAIN ret.docs[1] /\ "user_id" \notin DOMAIN ret.docs[2]

\* C3 as claimed: get_documents(C, F) returns exactly the stored documents of C
\* in which every field of F is present and equal to F's value; a document
\* without a field of F is never returned, even when F expects None.
C3_MissingFieldNeverMatches ==
  (db = "MockDB" /\ ret.op = "get" /\ ret.limit = None) =>
    ret.docs = SelectSeq(Stored(ret.name),
                 LAMBDA d : \A k \in DOMAIN ret.filter :
                              k \in DOMAIN d /\ d[k] = ret.filter[k])

\* C3 amended: get_documents(C, F) returns exactly the stored documents of C in
\* which every field of F is either present and equal to F's value, or absent
\* while F expects None; a document without a field for which F expects a value
\* other than None is never returned.
C3_FilterMatchesExactly ==
  (db = "MockDB" /\ ret.op = "get" /\ ret.limit = None) =>
    /\ ret.docs = SelectSeq(Stored(ret.name),
                    LAMBDA d : \A k \in DOMAIN ret.filter :
                                 \/ k \in DOMAIN d /\ d[k] = ret.filter[k]
                                 \/ k \notin DOMAIN d /\ ret.filter[k] = None)
    /\ \A i \in DOMAIN ret.docs : \A k \in DOMAIN ret.filter :
         ret.filter[k] # None => k \in DOMAIN ret.docs[i]

\* C3 witness: a query for user_id None returned a document that has no user_id
\* and left out a stored document whose user_id is set
C3_Witness ==
  /\ db = "MockDB" /\ ret.op = "get" /\ ret.limit = None
  /\ ret.filter = ("user_id" :> None)
  /\ Len(Stored(ret.name)) = 2 /\ Len(ret.docs) = 1
  /\ "user_id" \notin DOMAIN ret.docs[1]

\* C4: limit law: for every limit n >= 0, get_documents(C, F, limit=n) returns at
\* most n documents, namely the first min(n, size) of get_documents(C, F).
C4_LimitLaw ==
  (db = "MockDB" /\ ret.op = "get" /\ ret.limit >= 0) =>
    LET unlimited == get_documents(Stored(ret.name), ret.filter, None)
    IN  /\ Len(ret.docs) <= ret.limit
        /\ ret.docs = SubSeq(unlimited, 1, Min(ret.limit, Len(unlimited)))

\* C5: no two documents stored in the same collection of the in-memory store
\* have the same _id, whatever mappings were passed to create_document.
C5_IdentifiersUnique ==
  \A o \in DOMAIN _docs : \A i, j \in DOMAIN _docs[o] :
    i # j => _docs[o][i]["_id"] # _docs[o][j]["_id"]

\* C6: with mock mode not forced, pymongo present and a connection string to an
\* unreachable host plus a database name supplied, startup binds the in-memory
\* store, records the external store as unavailable, and no later
\* create_document or get_documents call fails.
C6_UnreachableHostFallsBack ==
  ( /\ startup # "pending"
    /\ ~USE_MOCK_DB /\ MongoClient # "None"
    /\ database_url = "mongodb://unreachable:27017" /\ database_name = "trading" ) =>
      /\ db = "MockDB"
      /\ ~mongodb_available
      /\ ~ret.raised

\* C7: after startup the pymongo database is bound and mongodb_available is
\* true exactly when mock mode is not forced, pymongo is present, a connection
\* string and a database name are supplied and building the client and the
\* database raised nothing; otherwise the in-memory store is bound and the flag
\* is false; with mock mode forced no client is built and the server is never
\* called.
C7_SelectionDecision ==
  startup # "pending" =>
    LET external == /\ ~USE_MOCK_DB
                    /\ MongoClient = "MongoClient"
                    /\ environ.DATABASE_URL \notin {Unset, ""}
                    /\ environ.DATABASE_NAME \notin {Unset, ""}
                    /\ ~ClientRaises(environ.DATABASE_URL)
                    /\ ~DatabaseRaises(environ.DATABASE_NAME)
    IN  /\ external <=> (db = "Database" /\ mongodb_available)
        /\ ~external => (db = "MockDB" /\ ~mongodb_available)
        /\ USE_MOCK_DB =>
             /\ db = "MockDB" /\ _client = "None"
             /\ \A c \in Names : remote[c] = <<>>
             /\ ~ret.raised

\* C7 witness: mock mode forced over a complete, usable external configuration,
\* and a document created and read back
C7_Witness ==
  /\ USE_MOCK_DB /\ MongoClient = "MongoClient"
  /\ database_url = "mongodb://localhost:27017" /\ database_name = "trading"
  /\ db = "MockDB"
  /\ ret.op = "get" /\ Len(ret.docs) = 1

\* C8: every stored document has created_at equal to updated_at, both the clock
\* reading create_document took, whatever created_at the payload carried, and
\* no step of this layer changes a document once it is stored.
C8_TimestampLaw ==
  [][ /\ \A o \in DOMAIN _docs' : \A i \in DOMAIN _docs'[o] :
           _docs'[o][i]["created_at"] = _docs'[o][i]["updated_at"]
      /\ \A c \in Names : \A i \in DOMAIN remote'[c] :
           remote'[c][i]["created_at"] = remote'[c][i]["updated_at"]
      /\ db = "MockDB" =>
           \A c \in Names : \A i \in DOMAIN InsertedInto(c)' :
             /\ i \in DOMAIN Stored(c)'
             /\ Stored(c)'[i]["created_at"] = InsertedInto(c)'[i].at
             /\ Stored(c)'[i]["updated_at"] = InsertedInto(c)'[i].at
      /\ \A o \in DOMAIN _docs : o \in DOMAIN _docs' /\ IsPrefix(_docs[o], _docs'[o])
      /\ \A c \in Names : IsPrefix(remote[c], remote'[c]) ]_vars

\* C8 witness: an order whose payload carried its own created_at is stored and
\* a later query has run
C8_Witness ==
  /\ db = "MockDB" /\ ret.op = "get" /\ ret.name = "order" /\ Len(ret.docs) = 2
  /\ \E i \in DOMAIN history :
       /\ "created_at" \in DOMAIN history[i].data
       /\ history[i].data["created_at"] # None
       /\ history[i].data["created_at"] # history[i].at

\* C9: once the selector has run, no create_document, get_documents or
\* list_collection_names call changes the bound store, the client or
\* mongodb_available, a call that fails on the pymongo database included.
C9_BoundOnce ==
  [][ startup # "pending" =>
        /\ db' = db
        /\ _client' = _client
        /\ mongodb_available' = mongodb_available
        /\ startup' = startup ]_vars

\* C9 witness: a create_document on the bound pymongo database failed and the
\* binding is as the selector left it
C9_Witness ==
  /\ db = "Database" /\ mongodb_available
  /\ ret.op = "create" /\ ret.raised

\* C10 as claimed: on the in-memory store list_collection_names returns exactly
\* the names that received an insertion; a name that was only queried is not
\* listed.
C10_ListsOnlyInsertedNames ==
  (db = "MockDB" /\ ret.op = "list") =>
    {ret.names[i] : i \in DOMAIN ret.names} = {history[i].name : i \in DOMAIN history}

\* C10 amended: on the in-memory store list_collection_names returns, once
\* each, exactly the names passed to create_document or get_documents so far:
\* every name that received an insertion is listed, and so is a name that was
\* only queried, as a collection without documents.
C10_ListsAccessedNames ==
  (db = "MockDB" /\ ret.op = "list") =>
    /\ {ret.names[i] : i \in DOMAIN ret.names} = accessed
    /\ {history[i].name : i \in DOMAIN history} \subseteq accessed
    /\ \A i, j \in DOMAIN ret.names : i # j => ret.names[i] # ret.names[j]
    /\ \A c \in accessed : InsertedInto(c) = <<>> => Stored(c) = <<>>

\* C10 witness: the listing names a collection that was queried and never
\* inserted into, next to one that holds a document
C10_Witness ==
  /\ db = "MockDB" /\ ret.op = "list" /\ Len(ret.names) = 2
  /\ Cardinality({history[i].name : i \in DOMAIN history}) = 1

====
